---- MODULE Spec2Model ----
(***************************************************************************)
(* Model of the stack-trace source resolver of bug-buster:                 *)
(*   src/src/workflows/stacktrace/flow.py                                  *)
(*     StacktraceAgentFlow.fetch_files            (the session loop)       *)
(*     StacktraceAgentFlow._resolve_file_in_github (candidate + fetch)     *)
(*     StacktraceAgentFlow._refine_method          (method locator)        *)
(*   src/src/workflows/stacktrace/model.py  (FileId, ResolvedFile, ...)    *)
(*                                                                         *)
(* Python strings are sequences of one-character strings, so that          *)
(* str.split, str.join, str.lstrip and the `in` substring test are         *)
(* computed character by character.  Python objects (ResolvedFile) live    *)
(* in a heap and are referred to by their index, so that aliasing and      *)
(* in-place mutation (snippet_offsets.append) are modelled as in Python.   *)
(***************************************************************************)
EXTENDS Integers, Sequences, FiniteSets, TLC

VARIABLES
  language,    \* ev.sample.language
  frames,      \* ev.frames, the ordered list of StackFrame
  idx,         \* the loop index of enumerate(ev.frames), 0-based
  pc,          \* position of fetch_files: "loop", "refine", "done", "raised"; "idle" outside a session
  f,           \* the local variable f of fetch_files: a heap reference, 0 when unset
  files,       \* the local dict files: insertion-ordered sequence of [key, val]
  heap,        \* the ResolvedFile objects created so far, heap[o] is object o
  ops,         \* history of the remote operations issued through gh_client
  unresolved,  \* history: the frame indexes reported by log.warning at flow.py:91
  result,      \* StopEvent.result, NoResult until the step returns
  raised,      \* the exception that ended the step, "none" while none has
  q,           \* a single candidate-path query (language, path, tree) and its answer
  locates      \* history of the method-locator calls awaited at flow.py:97

vars == <<language, frames, idx, pc, f, files, heap, ops, unresolved, result, raised, q, locates>>

(***************************************************************************)
(* Bounds and input sets                                                   *)
(***************************************************************************)
MaxFrames == 3
MaxPathLen == 5

Java == <<"j", "a", "v", "a">>
Scala == <<"s", "c", "a", "l", "a">>
Kotlin == <<"k", "o", "t", "l", "i", "n">>
Python == <<"p", "y", "t", "h", "o", "n">>

\* flow.py:147  language in {"java", "scala", "kotlin"}
JvmLanguages == {Java, Scala, Kotlin}

Languages == {Python, Java}

Repo == "owner/repo"
Commit == "c0ffee"

\* Raw paths as a stack trace reports them.
PathSlashSW == <<"/", "s", "/", "w">>
PathSW == <<"s", "/", "w">>
PathUX == <<"/", "u", "/", "x">>
PathEmpty == <<>>

\* A StackFrame is modelled by the two fields the session reads for more than
\* a log message: path and method.
FrameSet ==
  { [path |-> PathSlashSW, method |-> "m1"],
    [path |-> PathSlashSW, method |-> "m2"],
    [path |-> PathSW, method |-> "m1"],
    [path |-> PathUX, method |-> "m1"],
    [path |-> PathEmpty, method |-> "m1"] }

\* The line ranges the method locator may answer with (FileOffset).
FileOffsets == { [start |-> 1, end |-> 3], [start |-> 5, end |-> 2] }

RECURSIVE SeqsUpTo(_, _)
SeqsUpTo(S, n) ==
  IF n = 0 THEN {<<>>}
  ELSE LET shorter == SeqsUpTo(S, n - 1)
       IN shorter \cup {Append(s, x) : s \in {t \in shorter : Len(t) = n - 1}, x \in S}

(***************************************************************************)
(* The repository snapshot behind gh_client (the remote collaborator)      *)
(***************************************************************************)
FileReadme == <<"R">>
FileSW == <<"s", "/", "w">>
FileJavaSW == <<"s", "r", "c", "/", "m", "a", "i", "n", "/", "j", "a", "v", "a", "/", "s", "/", "w">>
DirS == <<"s">>
DirSrc == <<"s", "r", "c">>
DirRoot == <<>>

\* The files that exist at the commit.
RepoFiles == {FileReadme, FileSW, FileJavaSW}

\* r.get_git_tree(commit, recursive=False).tree, as the list of item.path
GitTree == <<FileReadme, DirS, DirSrc>>

\* The number of lines of the text of a blob.
NumberOfLines(text) == IF text = FileReadme THEN 2 ELSE 4

\* The directories get_contents answers with a listing, and the listing.
RepoDirs == {DirRoot, DirS}
Listing(path) == IF path = DirRoot THEN GitTree ELSE <<FileSW>>

(***************************************************************************)
(* Inputs of a single candidate-path query                                 *)
(***************************************************************************)
PathAlphabet == {"/", "s", "t", "x"}

ExampleRender == <<"/", "u", "s", "r", "/", "a", "p", "p", "/", "s", "r", "c", "/", "w", "i", "d", "g", "e", "t", "s", "/", "r", "e", "n", "d", "e", "r", ".", "p", "y">>
ExampleRenderTree == <<<<"s", "r", "c">>, <<"t", "e", "s", "t", "s">>, <<"R", "E", "A", "D", "M", "E", ".", "m", "d">>>>
ExampleRenderCandidate == <<"s", "r", "c", "/", "w", "i", "d", "g", "e", "t", "s", "/", "r", "e", "n", "d", "e", "r", ".", "p", "y">>
ExampleFoo == <<"c", "o", "m", "/", "e", "x", "a", "m", "p", "l", "e", "/", "F", "o", "o", ".", "j", "a", "v", "a">>
ExampleFooTest == <<"c", "o", "m", "/", "e", "x", "a", "m", "p", "l", "e", "/", "F", "o", "o", "T", "e", "s", "t", ".", "j", "a", "v", "a">>

ExampleFooCandidate == <<"s", "r", "c", "/", "m", "a", "i", "n", "/", "j", "a", "v", "a", "/", "c", "o", "m", "/", "e", "x", "a", "m", "p", "l", "e", "/", "F", "o", "o", ".", "j", "a", "v", "a">>
ExampleFooTestCandidate == <<"s", "r", "c", "/", "t", "e", "s", "t", "/", "j", "a", "v", "a", "/", "c", "o", "m", "/", "e", "x", "a", "m", "p", "l", "e", "/", "F", "o", "o", "T", "e", "s", "t", ".", "j", "a", "v", "a">>
ExampleTestDir == <<"T", "e", "s", "t", "/", "F", "o", "o", ".", "j", "a", "v", "a">>
ExampleSlashes == <<"/", "/", "a", "/", "F", "o", "o", "T", "e", "s", "t", ".", "k", "t">>

QueryPaths ==
  SeqsUpTo(PathAlphabet, MaxPathLen)
    \cup {ExampleRender, ExampleFoo, ExampleFooTest, ExampleTestDir, ExampleSlashes}
QueryLanguages == {Python, Java, Kotlin}
QueryTrees ==
  { <<>>, << <<"s">> >>, << <<"t">> >>, << <<"s">>, <<"t">> >>, << <<"s", "t">> >>, ExampleRenderTree }

(***************************************************************************)
(* Python string and list primitives                                       *)
(***************************************************************************)
\* str.split('/')
RECURSIVE SplitFrom(_, _, _)
SplitFrom(s, i, cur) ==
  IF i > Len(s) THEN <<cur>>
  ELSE IF s[i] = "/" THEN <<cur>> \o SplitFrom(s, i + 1, <<>>)
  ELSE SplitFrom(s, i + 1, Append(cur, s[i]))

split(s) == SplitFrom(s, 1, <<>>)

\* '/'.join(parts)
RECURSIVE join(_)
join(parts) ==
  IF parts = <<>> THEN <<>>
  ELSE IF Len(parts) = 1 THEN parts[1]
  ELSE parts[1] \o <<"/">> \o join(Tail(parts))

\* str.lstrip('/')
lstrip_One(s) == IF s # <<>> /\ s[1] = "/" THEN Tail(s) ELSE s

RECURSIVE lstrip(_)
lstrip(s) == IF s # <<>> /\ s[1] = "/" THEN lstrip(Tail(s)) ELSE s

\* sub in s  (substring test)
contains(sub, s) ==
  \E k \in 0..(Len(s) - Len(sub)) : SubSeq(s, k + 1, k + Len(sub)) = sub

\* seq[i:] for a Python index i, which may be negative
SliceFrom(seq, i) ==
  LET n == Len(seq)
      st == IF i < 0 THEN (IF n + i < 0 THEN 0 ELSE n + i) ELSE (IF i > n THEN n ELSE i)
  IN SubSeq(seq, st + 1, n)

\* seq[-1]
Last(seq) == seq[Len(seq)]

\* key in d, d[key], d[key] = val, list(d.values()) on an insertion-ordered dict
DictHas_Never(d, key) == FALSE
DictHas(d, key) == \E k \in DOMAIN d : d[k].key = key
DictGet(d, key) == d[CHOOSE k \in DOMAIN d : d[k].key = key].val
DictSet(d, key, val) ==
  IF DictHas(d, key)
  THEN [k \in DOMAIN d |-> IF d[k].key = key THEN [key |-> key, val |-> val] ELSE d[k]]
  ELSE Append(d, [key |-> key, val |-> val])
DictValues(d) == [k \in DOMAIN d |-> d[k].val]

(***************************************************************************)
(* gh_client: every call may raise GithubException; get_contents answers   *)
(* with the file, with a directory listing, or raises (404 or transient).  *)
(***************************************************************************)
\* r.get_contents(candidate_path, ref=commit), followed by flow.py:175-176:
\* a listing is replaced by its first entry.  text is the path of the blob
\* whose text content.decoded_content holds.
get_contents(candidate_path) ==
  {[kind |-> "GithubException", text |-> <<>>]}
  \cup (IF candidate_path \in RepoFiles
        THEN {[kind |-> "file", text |-> candidate_path]}
        ELSE IF candidate_path \in RepoDirs
        THEN {[kind |-> "list", text |-> Listing(candidate_path)[1]]}
        ELSE {})

(***************************************************************************)
(* _resolve_file_in_github                                                 *)
(***************************************************************************)
Test == <<"T", "e", "s", "t">>
SrcTest(lang) == <<"s", "r", "c", "/", "t", "e", "s", "t", "/">> \o lang \o <<"/">>
SrcMain(lang) == <<"s", "r", "c", "/", "m", "a", "i", "n", "/">> \o lang \o <<"/">>

\* flow.py:160-166, the while loop: the value of i when the loop is left
\* the scan started from the left: the leftmost matching segment
ScanLoop_Leftmost(path_parts, dirs, i) ==
  LET hits == {k \in 0..i : \E d \in DOMAIN dirs : path_parts[k + 1] = dirs[d]}
  IN IF hits = {} THEN 0 - 1 ELSE CHOOSE k \in hits : \A k2 \in hits : k <= k2

RECURSIVE ScanLoop(_, _, _)
ScanLoop(path_parts, dirs, i) ==
  IF i >= 0
  THEN IF \E d \in DOMAIN dirs : path_parts[i + 1] = dirs[d]
       THEN i
       ELSE ScanLoop(path_parts, dirs, i - 1)
  ELSE i

\* flow.py:147-168, the candidate path of either strategy
CandidatePath(lang, path, dirs) ==
  IF lang \in JvmLanguages
  THEN LET file_name == Last(split(path))
       IN IF contains(Test, file_name)
          THEN SrcTest(lang) \o lstrip(path)
          ELSE SrcMain(lang) \o lstrip(path)
  ELSE LET path_parts == split(path)
           i == ScanLoop(path_parts, dirs, Len(path_parts) - 1)
       IN join(SliceFrom(path_parts, i))

Call(op, path, ok) == [op |-> op, path |-> path, ok |-> ok]

\* flow.py:173-187: what the resolver returns for an answer of get_contents
ResolveReturn_Trusting(lang, repo, commit, candidate_path, content) ==
  [ret |-> "file",
   file |-> [file_id |-> [path |-> candidate_path, repo |-> repo, commit |-> commit,
                          url |-> [repo |-> repo, sha |-> commit, path |-> candidate_path],
                          language |-> lang],
             content |-> content.text,
             snippet_offsets |-> <<>>]]
ResolveReturn(lang, repo, commit, candidate_path, content) ==
  IF content.kind = "GithubException"
  THEN [ret |-> "None"]
  ELSE [ret |-> "file",
        file |-> [file_id |-> [path |-> candidate_path, repo |-> repo, commit |-> commit,
                               url |-> [repo |-> repo, sha |-> commit, path |-> candidate_path],
                               language |-> lang],
                  content |-> content.text,
                  snippet_offsets |-> <<>>]]

\* The runs of one call: the remote calls it makes, in order, and what it
\* returns ("file", "None") or that it raises ("raise").
resolve_file_in_github(lang, repo, commit, path) ==
  LET jvm == lang \in JvmLanguages
      candidate_path == CandidatePath(lang, path, GitTree)
      upToTree == IF jvm THEN <<Call("get_repo", <<>>, TRUE)>>
                  ELSE <<Call("get_repo", <<>>, TRUE), Call("get_git_tree", <<>>, TRUE)>>
  IN {[calls |-> <<Call("get_repo", <<>>, FALSE)>>, out |-> [ret |-> "raise"]]}
     \cup (IF jvm THEN {}
           ELSE {[calls |-> <<Call("get_repo", <<>>, TRUE), Call("get_git_tree", <<>>, FALSE)>>,
                  out |-> [ret |-> "raise"]]})
     \cup {[calls |-> Append(upToTree, Call("get_commit", <<>>, FALSE)), out |-> [ret |-> "raise"]]}
     \cup {[calls |-> upToTree \o <<Call("get_commit", <<>>, TRUE),
                                   Call("get_contents", candidate_path, content.kind # "GithubException")>>,
            out |-> ResolveReturn(lang, repo, commit, candidate_path, content)]
           : content \in get_contents(candidate_path)}

(***************************************************************************)
(* _refine_method: the structured LLM answers with some FileOffset, or the *)
(* call raises.                                                            *)
(***************************************************************************)
refine_method(file, method_name) == FileOffsets

(***************************************************************************)
(* fetch_files                                                             *)
(***************************************************************************)
NoResult == [kind |-> "none"]
Unable == [kind |-> "str", value |-> "Unable to link stack trace to files in Github"]
NoQuery == [done |-> FALSE, language |-> <<>>, path |-> <<>>, dirs |-> <<>>, candidate |-> <<>>]

Init ==
  /\ language \in Languages
  /\ frames \in SeqsUpTo(FrameSet, MaxFrames)
  /\ idx = 0
  /\ pc = "loop"
  /\ f = 0
  /\ files = <<>>
  /\ heap = <<>>
  /\ ops = <<>>
  /\ unresolved = {}
  /\ result = NoResult
  /\ raised = "none"
  /\ locates = <<>>
  /\ q = NoQuery

\* flow.py:84  the frame of the current iteration of enumerate(ev.frames)
Frame_OffByOne == frames[IF idx + 2 <= Len(frames) THEN idx + 2 ELSE idx + 1]
Frame == frames[idx + 1]

\* flow.py:98  SnippetOffset(frame_id=idx, start=file_off.start, end=file_off.end)
NewSnippet_Shifted(i, file_off) ==
  [frame_id |-> i + 1, start |-> file_off.start, end |-> file_off.end]
NewSnippet(i, file_off) ==
  [frame_id |-> i, start |-> file_off.start, end |-> file_off.end]

\* flow.py:98  f.snippet_offsets.append(...)
AppendSnippet_Dedup(snippet_offsets, snippet) ==
  IF \E k \in DOMAIN snippet_offsets :
       /\ snippet_offsets[k].start = snippet.start
       /\ snippet_offsets[k].end = snippet.end
  THEN snippet_offsets
  ELSE Append(snippet_offsets, snippet)
AppendSnippet_Prepend(snippet_offsets, snippet) == <<snippet>> \o snippet_offsets
AppendSnippet(snippet_offsets, snippet) == Append(snippet_offsets, snippet)

\* flow.py:102-105  the result of the StopEvent
StopResult_NoAbort(fs, frs) == [kind |-> "dict", frames |-> frs, files |-> DictValues(fs)]
StopResult(fs, frs) ==
  IF fs = <<>>
  THEN Unable
  ELSE [kind |-> "dict", frames |-> frs, files |-> DictValues(fs)]

InLoop == pc = "loop" /\ idx < Len(frames)

Tagged(calls) == [k \in DOMAIN calls |-> [op |-> calls[k].op, path |-> calls[k].path,
                                          ok |-> calls[k].ok, frame |-> idx]]

\* flow.py:93-94  the raw path is a key of files
CacheHit ==
  /\ InLoop
  /\ DictHas(files, Frame.path)
  /\ f' = DictGet(files, Frame.path)
  /\ pc' = "refine"
  /\ UNCHANGED <<language, frames, idx, files, heap, ops, unresolved, result, raised, q, locates>>

\* flow.py:88-89  a remote call outside the try block raises: the step raises
ResolveRaises ==
  /\ InLoop
  /\ ~DictHas(files, Frame.path)
  /\ \E run \in resolve_file_in_github(language, Repo, Commit, Frame.path) :
       /\ run.out.ret = "raise"
       /\ ops' = ops \o Tagged(run.calls)
  /\ pc' = "raised"
  /\ raised' = "GithubException"
  /\ UNCHANGED <<language, frames, idx, f, files, heap, unresolved, result, q, locates>>

\* flow.py:88-92 with `break` in the place of `continue`
ResolveNotFound_Break ==
  /\ InLoop
  /\ ~DictHas(files, Frame.path)
  /\ \E run \in resolve_file_in_github(language, Repo, Commit, Frame.path) :
       /\ run.out.ret = "None"
       /\ ops' = ops \o Tagged(run.calls)
  /\ f' = 0
  /\ unresolved' = unresolved \cup {idx}
  /\ idx' = Len(frames)
  /\ UNCHANGED <<language, frames, pc, files, heap, result, raised, q, locates>>

\* flow.py:88-92 with the failure stored in files as a negative entry
ResolveNotFound_NegativeCache ==
  /\ InLoop
  /\ ~DictHas(files, Frame.path)
  /\ \E run \in resolve_file_in_github(language, Repo, Commit, Frame.path) :
       /\ run.out.ret = "None"
       /\ ops' = ops \o Tagged(run.calls)
  /\ f' = 0
  /\ files' = DictSet(files, Frame.path, 0)
  /\ unresolved' = unresolved \cup {idx}
  /\ idx' = idx + 1
  /\ UNCHANGED <<language, frames, pc, heap, result, raised, q, locates>>

\* flow.py:88-92  the resolver returns None: warn and continue
ResolveNotFound ==
  /\ InLoop
  /\ ~DictHas(files, Frame.path)
  /\ \E run \in resolve_file_in_github(language, Repo, Commit, Frame.path) :
       /\ run.out.ret = "None"
       /\ ops' = ops \o Tagged(run.calls)
  /\ f' = 0
  /\ unresolved' = unresolved \cup {idx}
  /\ idx' = idx + 1
  /\ UNCHANGED <<language, frames, pc, files, heap, result, raised, q, locates>>

\* flow.py:88-90  the resolver returns a new ResolvedFile
ResolveFound_CacheEarly ==
  /\ InLoop
  /\ ~DictHas(files, Frame.path)
  /\ \E run \in resolve_file_in_github(language, Repo, Commit, Frame.path) :
       /\ run.out.ret = "file"
       /\ ops' = ops \o Tagged(run.calls)
       /\ heap' = Append(heap, run.out.file)
  /\ f' = Len(heap) + 1
  /\ files' = DictSet(files, Frame.path, Len(heap) + 1)
  /\ pc' = "refine"
  /\ UNCHANGED <<language, frames, idx, unresolved, result, raised, q, locates>>
ResolveFound ==
  /\ InLoop
  /\ ~DictHas(files, Frame.path)
  /\ \E run \in resolve_file_in_github(language, Repo, Commit, Frame.path) :
       /\ run.out.ret = "file"
       /\ ops' = ops \o Tagged(run.calls)
       /\ heap' = Append(heap, run.out.file)
  /\ f' = Len(heap) + 1
  /\ pc' = "refine"
  /\ UNCHANGED <<language, frames, idx, files, unresolved, result, raised, q, locates>>

\* flow.py:97  history of the calls self._refine_method(f, frame.method): the
\* frame of the call and how many gh_client calls the session had made before it
Located(i) == [frame |-> i, after |-> Len(ops)]

\* flow.py:97-99  the locator answers: append the snippet, store f under the raw path
RefineAttach ==
  /\ pc = "refine"
  /\ \E file_off \in refine_method(heap[f], Frame.method) :
       heap' = [heap EXCEPT ![f].snippet_offsets = AppendSnippet(@, NewSnippet(idx, file_off))]
  /\ files' = DictSet(files, Frame.path, f)
  /\ idx' = idx + 1
  /\ pc' = "loop"
  /\ locates' = Append(locates, Located(idx))
  /\ UNCHANGED <<language, frames, f, ops, unresolved, result, raised, q>>

\* flow.py:97  the awaited locator call raises: the step raises
RefineRaises ==
  /\ pc = "refine"
  /\ pc' = "raised"
  /\ raised' = "LocatorError"
  /\ locates' = Append(locates, Located(idx))
  /\ UNCHANGED <<language, frames, idx, f, files, heap, ops, unresolved, result, q>>

\* cli.py:60  the workflow runs with timeout=60.  The calls through gh_client
\* are synchronous, so the deadline takes effect where the step awaits: in
\* the awaited locator call.  The step is cancelled and the run raises.
Timeout ==
  /\ pc = "refine"
  /\ pc' = "raised"
  /\ raised' = "WorkflowTimeoutError"
  /\ locates' = Append(locates, Located(idx))
  /\ UNCHANGED <<language, frames, idx, f, files, heap, ops, unresolved, result, q>>

\* flow.py:101-105  after the loop
Finish ==
  /\ pc = "loop"
  /\ idx = Len(frames)
  /\ result' = StopResult(files, frames)
  /\ pc' = "done"
  /\ UNCHANGED <<language, frames, idx, f, files, heap, ops, unresolved, raised, q, locates>>

Next ==
  \/ CacheHit
  \/ ResolveRaises
  \/ ResolveNotFound
  \/ ResolveFound
  \/ RefineAttach
  \/ RefineRaises
  \/ Timeout
  \/ Finish

Spec == Init /\ [][Next]_vars

(***************************************************************************)
(* A single candidate-path query: the candidate computation of             *)
(* _resolve_file_in_github applied to one (language, path, tree).          *)
(***************************************************************************)
InitPath ==
  /\ language = Python
  /\ frames = <<>>
  /\ idx = 0
  /\ pc = "idle"
  /\ f = 0
  /\ files = <<>>
  /\ heap = <<>>
  /\ ops = <<>>
  /\ unresolved = {}
  /\ result = NoResult
  /\ raised = "none"
  /\ locates = <<>>
  /\ q \in [done : {FALSE}, language : QueryLanguages, path : QueryPaths, dirs : QueryTrees,
            candidate : {<<>>}]

Query ==
  /\ pc = "idle"
  /\ ~q.done
  /\ q' = [q EXCEPT !.done = TRUE, !.candidate = CandidatePath(q.language, q.path, q.dirs)]
  /\ UNCHANGED <<language, frames, idx, pc, f, files, heap, ops, unresolved, result, raised, locates>>

NextPath == Query

SpecPath == InitPath /\ [][NextPath]_vars

(***************************************************************************)
(* Vocabulary of the properties                                            *)
(***************************************************************************)
Range(seq) == {seq[k] : k \in DOMAIN seq}

FrameIndexes == 0..(Len(frames) - 1)

\* the remote calls issued for frame i
CallsOf(i) == {k \in DOMAIN ops : ops[k].frame = i}

\* the raw path whose resolution issued call k
RawPathOf(k) == frames[ops[k].frame + 1].path

\* the content fetches, and those that succeeded
Fetches == {k \in DOMAIN ops : ops[k].op = "get_contents"}
OkFetches == {k \in Fetches : ops[k].ok}

\* the ResolvedFile constructed after successful fetch k: objects are created
\* in the order of the successful fetches
CreatedBy(k) == Cardinality({k2 \in OkFetches : k2 <= k})

\* the files of the returned result (heap references), none for the failure result
OutputFiles == IF result.kind = "dict" THEN result.files ELSE <<>>

\* the places (file, position) of the output where a snippet of frame i is recorded
SnippetPlaces(i) ==
  {<<k, j>> \in (DOMAIN OutputFiles) \X (1..MaxFrames + 1) :
     /\ j \in DOMAIN heap[OutputFiles[k]].snippet_offsets
     /\ heap[OutputFiles[k]].snippet_offsets[j].frame_id = i}

\* the frame_ids of the snippets recorded on object o, in order
FrameIdsOf(o) == [j \in DOMAIN heap[o].snippet_offsets |-> heap[o].snippet_offsets[j].frame_id]

\* a segment of a '/'-separated string: s[a..b] holds no '/', and is delimited by '/' or an end
IsSegment(s, a, b) ==
  /\ a <= b
  /\ \A k \in a..b : s[k] # "/"
  /\ a = 1 \/ s[a - 1] = "/"
  /\ b = Len(s) \/ s[b + 1] = "/"

\* the start positions of the segments of s that equal a top-level entry name
MatchStarts(s, dirs) ==
  {a \in 1..Len(s) : \E b \in a..Len(s) : IsSegment(s, a, b) /\ SubSeq(s, a, b) \in Range(dirs)}

(***************************************************************************)
(* C1                                                                      *)
(***************************************************************************)
\* C1 (as stated): for every raw path p the resolution (_resolve_file_in_github,
\* whose first remote call is get_repo) runs at most once in a session,
\* whatever the outcome of the first attempt.
C1_ResolvedAtMostOnce ==
  \A k1 \in DOMAIN ops : \A k2 \in DOMAIN ops :
    (/\ ops[k1].op = "get_repo"
     /\ ops[k2].op = "get_repo"
     /\ RawPathOf(k1) = RawPathOf(k2)) => k1 = k2

\* C1 (amended): for every raw path p the resolution succeeds at most once in a
\* session; once it has returned a ResolvedFile, no remote operation is issued
\* for any later frame with raw path p, and each such frame is served that same
\* record (by identity) from the session cache.  A resolution that returned
\* not-found is not cached and runs again for a later frame with the same path.
C1_SucceedsAtMostOnce ==
  \A k \in OkFetches :
    /\ \A k2 \in OkFetches : RawPathOf(k2) = RawPathOf(k) => k2 = k
    /\ \A j \in FrameIndexes :
         (j > ops[k].frame /\ frames[j + 1].path = RawPathOf(k)) =>
           /\ CallsOf(j) = {}
           /\ (j = idx /\ pc = "refine") => f = CreatedBy(k)
           /\ j < idx => j \in Range(FrameIdsOf(CreatedBy(k)))

C1_Witness ==
  /\ pc = "done"
  /\ \E k \in OkFetches : \E j \in FrameIndexes :
       /\ j > ops[k].frame
       /\ frames[j + 1].path = RawPathOf(k)
       /\ \E i \in unresolved : frames[i + 1].path = RawPathOf(k)

(***************************************************************************)
(* C2                                                                      *)
(***************************************************************************)
\* C2: partition invariant.  When a session over frames 0..n-1 completes, every
\* snippet frame_id of the output is an index in 0..n-1, and every frame index
\* is either unresolved (its resolution returned not-found) and has no snippet,
\* or has exactly one snippet across all output files.
C2_Partition ==
  pc = "done" =>
    /\ \A k \in DOMAIN OutputFiles : Range(FrameIdsOf(OutputFiles[k])) \subseteq FrameIndexes
    /\ \A i \in FrameIndexes :
         \/ i \in unresolved /\ SnippetPlaces(i) = {}
         \/ i \notin unresolved /\ Cardinality(SnippetPlaces(i)) = 1

C2_Witness ==
  /\ pc = "done"
  /\ Len(frames) = MaxFrames
  /\ unresolved # {}
  /\ Len(OutputFiles) >= 2

(***************************************************************************)
(* C3                                                                      *)
(***************************************************************************)
\* C3: at the end of a session, for every raw path that resolved, the frames
\* with that raw path that were resolved (not reported not-found) are served by
\* one single ResolvedFile: one object was constructed for the raw path, it is
\* in the output exactly once, and its snippet list is exactly the list of
\* those frames' indexes, one entry per frame, nothing merged.
C3_OneRecordPerRawPath ==
  pc = "done" =>
    \A p \in {frames[i + 1].path : i \in FrameIndexes \ unresolved} :
      /\ DictHas(files, p)
      /\ LET o == DictGet(files, p)
             served == SelectSeq([i \in 1..Len(frames) |-> i - 1],
                                 LAMBDA i : frames[i + 1].path = p /\ i \notin unresolved)
         IN /\ {CreatedBy(k) : k \in {k2 \in OkFetches : RawPathOf(k2) = p}} = {o}
            /\ Cardinality({k \in DOMAIN OutputFiles : OutputFiles[k] = o}) = 1
            /\ FrameIdsOf(o) = served

C3_Witness ==
  /\ pc = "done"
  /\ Len(frames) >= 2
  /\ frames[1] = frames[2]
  /\ \E o \in Range(OutputFiles) :
       /\ FrameIdsOf(o) = <<0, 1>>
       /\ heap[o].snippet_offsets[1].start = heap[o].snippet_offsets[2].start
       /\ heap[o].snippet_offsets[1].end = heap[o].snippet_offsets[2].end

(***************************************************************************)
(* C4                                                                      *)
(***************************************************************************)
\* C4: path-style resolution (language not in {java, scala, kotlin}): when no
\* segment of the raw path equals a top-level tree entry name, the resolver
\* returns not-found for that frame and issues no get_contents call.
C4_NoMatchNoFetch ==
  language \notin JvmLanguages =>
    \A i \in FrameIndexes :
      MatchStarts(frames[i + 1].path, GitTree) = {} =>
        /\ \A k \in CallsOf(i) : ops[k].op # "get_contents"
        /\ (i < idx /\ pc # "raised") => i \in unresolved

(***************************************************************************)
(* C5                                                                      *)
(***************************************************************************)
\* C5: path-style resolution: when at least one segment of the raw path equals
\* a top-level entry name, the candidate is the suffix of the raw path that
\* starts at the rightmost such segment, so that no later segment of the
\* candidate is a top-level entry; '/usr/app/src/widgets/render.py' with
\* entries src, tests, README.md gives 'src/widgets/render.py'.
C5_RightmostMatch ==
  (q.done /\ q.language \notin JvmLanguages) =>
    /\ MatchStarts(q.path, q.dirs) # {} =>
         \E a \in MatchStarts(q.path, q.dirs) :
           /\ \A a2 \in MatchStarts(q.path, q.dirs) : a2 <= a
           /\ q.candidate = SubSeq(q.path, a, Len(q.path))
           /\ MatchStarts(q.candidate, q.dirs) = {1}
    /\ (q.path = ExampleRender /\ q.dirs = ExampleRenderTree) =>
         q.candidate = ExampleRenderCandidate

C5_Witness ==
  /\ q.done
  /\ q.language = Python
  /\ q.path = <<"s", "/", "t", "/", "x">>
  /\ q.dirs = << <<"s">>, <<"t">> >>
  /\ q.candidate = <<"t", "/", "x">>

(***************************************************************************)
(* C6                                                                      *)
(***************************************************************************)
\* C6: a completed session returns the failure result if and only if no file
\* resolved in any frame; then the file set is empty and every frame index is
\* unresolved.  Otherwise it returns the success result, whose file list holds
\* every ResolvedFile constructed during the session.
C6_SessionOutcome ==
  pc = "done" =>
    /\ result = Unable <=> heap = <<>>
    /\ result = Unable => (files = <<>> /\ unresolved = FrameIndexes)
    /\ result # Unable =>
         /\ result.kind = "dict"
         /\ result.frames = frames
         /\ Range(result.files) = DOMAIN heap

C6_Witness ==
  /\ pc = "done"
  /\ result = Unable
  /\ Len(frames) >= 2
  /\ Fetches # {}

(***************************************************************************)
(* C7                                                                      *)
(***************************************************************************)
\* C7: a not-found outcome for a frame is not fatal.  The step that reports
\* frame i not-found leaves the files and snippets recorded so far untouched,
\* returns nothing, and moves on to frame i+1; so what earlier and later
\* frames record does not depend on frame i being in the input.
C7_NotFoundContinues ==
  [][unresolved' # unresolved =>
       /\ unresolved' = unresolved \cup {idx}
       /\ idx' = idx + 1
       /\ pc = "loop" /\ pc' = "loop"
       /\ files' = files
       /\ heap' = heap
       /\ result' = result
       /\ frames' = frames]_vars

C7_Witness ==
  /\ pc = "done"
  /\ \E i \in unresolved :
       /\ \E j \in FrameIndexes : j < i /\ SnippetPlaces(j) # {}
       /\ \E j \in FrameIndexes : j > i /\ SnippetPlaces(j) # {}

C9_OneFetchPerCanonicalPath ==
  \A k1 \in Fetches : \A k2 \in Fetches :
    (/\ ops[k1].path = ops[k2].path
     /\ \E k \in OkFetches : ops[k].path = ops[k1].path) => k1 = k2

(***************************************************************************)
(* C10                                                                     *)
(***************************************************************************)
\* C10: in the output of a session no two ResolvedFile records have the same
\* file_id.path.
C10_NoDuplicateRecords ==
  pc = "done" =>
    \A k1 \in DOMAIN OutputFiles : \A k2 \in DOMAIN OutputFiles :
      heap[OutputFiles[k1]].file_id.path = heap[OutputFiles[k2]].file_id.path => k1 = k2

(***************************************************************************)
(* C11                                                                     *)
(***************************************************************************)
\* C11: in a session with a path-style language the non-recursive top-level
\* tree listing is fetched at most once, however many frames and distinct raw
\* paths are resolved.
C11_TreeFetchedOnce ==
  language \notin JvmLanguages =>
    \A k1 \in DOMAIN ops : \A k2 \in DOMAIN ops :
      (ops[k1].op = "get_git_tree" /\ ops[k2].op = "get_git_tree") => k1 = k2

(***************************************************************************)
(* C12                                                                     *)
(***************************************************************************)
\* C12: a failure of the method locator (_refine_method) for one frame is a
\* recoverable per-frame failure: the session does not abort; it ends by
\* returning its result.
C12_LocatorFailureRecoverable ==
  pc \in {"done", "raised"} => raised # "LocatorError"

(***************************************************************************)
(* C13                                                                     *)
(***************************************************************************)
\* C13: classpath-style resolution (java, scala, kotlin): the candidate is
\* 'src/test/<language>/' followed by the raw path without its leading '/'
\* characters when the final '/'-separated segment contains 'Test', and
\* 'src/main/<language>/' followed by the stripped raw path otherwise;
\* java 'com/example/Foo.java' gives 'src/main/java/com/example/Foo.java'.
C13_ClasspathCandidate ==
  (q.done /\ q.language \in JvmLanguages) =>
    LET n == Len(q.path)
        lead == CHOOSE k \in 0..n :
                  /\ \A j \in 1..k : q.path[j] = "/"
                  /\ k = n \/ q.path[k + 1] # "/"
        slashes == {k \in 1..n : q.path[k] = "/"}
        lastSlash == IF slashes = {} THEN 0
                     ELSE CHOOSE k \in slashes : \A k2 \in slashes : k2 <= k
        isTest == \E k \in (lastSlash + 1)..(n - 3) :
                    <<q.path[k], q.path[k + 1], q.path[k + 2], q.path[k + 3]>> = <<"T", "e", "s", "t">>
        root == <<"s", "r", "c", "/">>
                  \o (IF isTest THEN <<"t", "e", "s", "t">> ELSE <<"m", "a", "i", "n">>)
                  \o <<"/">> \o q.language \o <<"/">>
    IN /\ q.candidate = root \o SubSeq(q.path, lead + 1, n)
       /\ (q.language = Java /\ q.path = ExampleFoo) => q.candidate = ExampleFooCandidate

C13_Witness ==
  /\ q.done
  /\ q.language = Java
  /\ q.path = ExampleFooTest
  /\ q.candidate = ExampleFooTestCandidate

(***************************************************************************)
(* C14                                                                     *)
(***************************************************************************)
\* C14: the result of a session in which every frame failed to resolve differs
\* from the result of a session that was given no frames.
C14_ExhaustedDiffersFromEmpty ==
  (pc = "done" /\ frames # <<>> /\ unresolved = FrameIndexes) =>
    result # StopResult(<<>>, <<>>)

(***************************************************************************)
(* C15                                                                     *)
(***************************************************************************)
\* C15: a failed resolution is never cached as a negative result.  After the
\* resolution of raw path p failed for frame i, the cache holds no entry for p
\* until a later frame's resolution of p succeeds; a later frame j with raw
\* path p, processed while p has not resolved, runs a fresh resolution, and if
\* its content fetch succeeds, the new ResolvedFile holds a snippet of frame j.
C15_NoNegativeCaching ==
  \A i \in unresolved :
    LET p == frames[i + 1].path
    IN /\ DictHas(files, p) =>
            /\ DictGet(files, p) \in DOMAIN heap
            /\ FrameIdsOf(DictGet(files, p)) # <<>>
            /\ FrameIdsOf(DictGet(files, p))[1] > i
       /\ \A j \in FrameIndexes :
            (/\ i < j /\ j < idx
             /\ frames[j + 1].path = p
             /\ ~\E k \in OkFetches : RawPathOf(k) = p /\ ops[k].frame < j) =>
               /\ \E k \in CallsOf(j) : ops[k].op = "get_repo"
               /\ \A k \in CallsOf(j) \cap OkFetches : j \in Range(FrameIdsOf(CreatedBy(k)))

C15_Witness ==
  /\ pc = "done"
  /\ \E i \in unresolved : \E k \in OkFetches :
       /\ ops[k].frame > i
       /\ RawPathOf(k) = frames[i + 1].path
       /\ ops[k].frame \in Range(FrameIdsOf(CreatedBy(k)))

(***************************************************************************)
(* C16                                                                     *)
(***************************************************************************)
\* the frames whose processing has begun
StartedFrames == {i \in FrameIndexes : i < idx \/ (i = idx /\ pc \in {"refine", "raised"})}

\* C16: in every reachable state the number of distinct file_id.path values
\* among the resolved files does not exceed the number of distinct raw paths
\* among the frames processed so far.
C16_PathsBoundedByRawPaths ==
  Cardinality({heap[o].file_id.path : o \in DOMAIN heap})
    <= Cardinality({frames[i + 1].path : i \in StartedFrames})

C16_Witness ==
  /\ pc = "done"
  /\ Cardinality({heap[o].file_id.path : o \in DOMAIN heap}) = 2
  /\ Cardinality({frames[i + 1].path : i \in StartedFrames}) = 3

(***************************************************************************)
(* C17                                                                     *)
(***************************************************************************)
\* C17: a frame whose path is the empty string is excluded before resolution:
\* no remote operation is issued for it and it never yields a ResolvedFile or
\* a snippet, under either strategy.
C17_EmptyPathExcluded ==
  \A i \in FrameIndexes :
    frames[i + 1].path = <<>> =>
      /\ CallsOf(i) = {}
      /\ \A o \in DOMAIN heap : i \notin Range(FrameIdsOf(o))

(***************************************************************************)
(* C18                                                                     *)
(***************************************************************************)
\* C18: every snippet recorded on a ResolvedFile satisfies
\* 0 <= start < end <= number_of_lines(content) + 1, whatever line range the
\* method locator answers with.
C18_SnippetRangeValid ==
  \A o \in DOMAIN heap : \A j \in DOMAIN heap[o].snippet_offsets :
    LET sn == heap[o].snippet_offsets[j]
    IN 0 <= sn.start /\ sn.start < sn.end /\ sn.end <= NumberOfLines(heap[o].content) + 1

(***************************************************************************)
(* C19                                                                     *)
(***************************************************************************)
\* C19: when the deadline fires during a session, the session returns the
\* files resolved so far as a normal result, not an error.
C19_DeadlineReturnsPartial ==
  raised = "WorkflowTimeoutError" =>
    /\ pc = "done"
    /\ result.kind = "dict"
    /\ Range(result.files) \subseteq DOMAIN heap

(***************************************************************************)
(* C20                                                                     *)
(***************************************************************************)
\* C20: a failure of a repository-API operation other than the content fetch
\* (repository lookup, tree listing, commit lookup) during the resolution of a
\* frame is downgraded to a per-frame not-found: the session does not raise.
C20_RemoteFailureDowngraded ==
  \A k \in DOMAIN ops :
    (~ops[k].ok /\ ops[k].op # "get_contents") =>
      /\ raised = "none"
      /\ ops[k].frame \in unresolved

(***************************************************************************)
(* C21                                                                     *)
(***************************************************************************)
\* C21: frames are processed strictly in input order.  The remote operations
\* and the method-locator calls of frame i all happen before any of a frame
\* j > i: the frame tags of the remote operations never decrease, there is at
\* most one locator call per frame and their frames increase, and a locator
\* call of frame j comes after every remote operation of the frames up to j
\* and before every remote operation of the later frames.  In every reachable
\* state the snippet list of every ResolvedFile is in strictly increasing
\* frame_id order.
C21_InputOrder ==
  /\ \A k1 \in DOMAIN ops : \A k2 \in DOMAIN ops :
       k1 < k2 => ops[k1].frame <= ops[k2].frame
  /\ \A l1 \in DOMAIN locates : \A l2 \in DOMAIN locates :
       l1 < l2 => locates[l1].frame < locates[l2].frame
  /\ \A k \in DOMAIN ops : \A l \in DOMAIN locates :
       /\ ops[k].frame <= locates[l].frame => k <= locates[l].after
       /\ ops[k].frame > locates[l].frame => k > locates[l].after
  /\ \A o \in DOMAIN heap :
       \A j1 \in DOMAIN FrameIdsOf(o) : \A j2 \in DOMAIN FrameIdsOf(o) :
         j1 < j2 => FrameIdsOf(o)[j1] < FrameIdsOf(o)[j2]

C21_Witness ==
  /\ pc = "done"
  /\ Len(locates) = MaxFrames
  /\ \E o \in DOMAIN heap : Len(FrameIdsOf(o)) >= 2
  /\ \E l \in DOMAIN locates : \E k \in DOMAIN ops :
       locates[l].after < k /\ locates[l].after > 0
(***************************************************************************)
(* C22                                                                     *)
(***************************************************************************)
\* C22: for every ResolvedFile in the session output, file_id.path names a
\* file (not a directory) that exists at the commit, and content is the full
\* text of exactly that path at that commit (in the repository fixture the
\* text of a file is identified by the file's path); this holds also when the
\* content fetch at the candidate path was answered with a directory listing.
C22_ContentMatchesPath ==
  pc = "done" =>
    \A o \in Range(OutputFiles) :
      /\ heap[o].file_id.path \in RepoFiles
      /\ heap[o].file_id.path \notin RepoDirs
      /\ heap[o].content = heap[o].file_id.path
(***************************************************************************)
(* C23                                                                     *)
(***************************************************************************)
\* C23: in every reachable state of a session, every entry of the session
\* cache (and so every ResolvedFile of the output) has a non-empty snippet
\* list, and its key is the raw path of an already-processed frame whose
\* resolution succeeded and whose snippet the entry's file holds: a file
\* enters the cache only after its first snippet has been appended.
C23_CachedAfterFirstSnippet ==
  /\ \A k \in DOMAIN files :
       /\ files[k].val \in DOMAIN heap
       /\ heap[files[k].val].snippet_offsets # <<>>
       /\ \E i \in FrameIndexes :
            /\ i < idx
            /\ i \notin unresolved
            /\ frames[i + 1].path = files[k].key
            /\ i \in Range(FrameIdsOf(files[k].val))
  /\ \A o \in Range(OutputFiles) :
       /\ o \in Range(DictValues(files))
       /\ heap[o].snippet_offsets # <<>>

C23_Witness ==
  /\ pc = "refine"
  /\ files # <<>>
  /\ f \notin Range(DictValues(files))
  /\ heap[f].snippet_offsets = <<>>

====
